---- MODULE Spec2Model ----
(***************************************************************************)
(* Model of pci_dss_parser.py: the blob assembler (update_list_req,        *)
(* extract_requirement_blobs), the node parser (_parse_id_and_title), the  *)
(* tree builder (add_node_from_blob) and the two serializers.              *)
(*                                                                         *)
(* Text is a sequence of chunks.  A chunk is a run of characters that the  *)
(* program's regular expressions can only match as a whole: one digit, one *)
(* upper-case letter, one punctuation or whitespace character, or a fixed  *)
(* word group of one of the patterns.  Every literal of every pattern of   *)
(* the source is a sequence of these chunks, so matching on chunks is      *)
(* matching on characters for the texts the model draws.                   *)
(***************************************************************************)
EXTENDS Integers, Sequences, FiniteSets, TLC

\* ------------------------------------------------------------------------
\* Bounds
\* ------------------------------------------------------------------------
MaxBlobs == 4
MaxCells == 3
MaxTables == 2
MaxRows == 2
MaxPieces == 3

\* Python's None (cell values, node.id)
None == <<"#None">>

\* ------------------------------------------------------------------------
\* Characters and str methods
\* ------------------------------------------------------------------------
IsSpace(c) == c \in {" ", "\n"}
IsDigit(c) == c \in {"1", "2"}
IsUpper(c) == c \in {"A"}
\* \w characters at the start of a chunk (for \b in the header pattern)
StartsWithWordChar(c) == ~(c \in {" ", "\n", ",", ":", ".", "(", "'"})

RECURSIVE lstrip(_)
lstrip(s) == IF s # <<>> /\ IsSpace(Head(s)) THEN lstrip(Tail(s)) ELSE s

RECURSIVE rstrip(_)
rstrip(s) ==
  IF s # <<>> /\ IsSpace(s[Len(s)]) THEN rstrip(SubSeq(s, 1, Len(s) - 1)) ELSE s

\* str.strip()
strip(s) == rstrip(lstrip(s))

\* str(cell): None prints as the word None, a string is itself
str(cell) == IF cell = None THEN <<"None">> ELSE cell

\* str.lower() on the chunks that carry upper-case letters
LowerChunk(c) ==
  CASE c = "Requirements and Testing Procedures" -> "requirements and testing procedures"
    [] c = "REQUIREMENTS AND TESTING PROCEDURES" -> "requirements and testing procedures"
    [] c = "Other Column" -> "other column"
    [] c = "Applicability Notes" -> "applicability notes"
    [] c = "APPLICABILITY NOTES" -> "applicability notes"
    [] c = "Customized Approach Objective" -> "customized approach objective"
    [] c = "Defined Approach Requirements" -> "defined approach requirements"
    [] c = "None" -> "none"
    [] c = "A" -> "a"
    [] OTHER -> c

lower(s) == [i \in 1..Len(s) |-> LowerChunk(s[i])]

\* s.startswith(p)
startswith(s, p) == Len(p) <= Len(s) /\ SubSeq(s, 1, Len(p)) = p

\* the literal lit occurs in s at offset p (0-based)
LitAt(s, p, lit) == p + Len(lit) <= Len(s) /\ SubSeq(s, p + 1, p + Len(lit)) = lit

\* ------------------------------------------------------------------------
\* REQ_INDEX_PATTERN  ^[A-Z]?\d+(?:\.\d+)*\s
\* ------------------------------------------------------------------------
\* number of digits of s from offset p on
RECURSIVE Digits(_, _)
Digits(s, p) == IF p + 1 <= Len(s) /\ IsDigit(s[p + 1]) THEN 1 + Digits(s, p + 1) ELSE 0

\* offset after the longest (?:\.\d+)* from offset p
RECURSIVE DotGroups(_, _)
DotGroups(s, p) ==
  IF p + 1 <= Len(s) /\ s[p + 1] = "." /\ Digits(s, p + 1) > 0
  THEN DotGroups(s, p + 1 + Digits(s, p + 1))
  ELSE p

\* length of m.group(0) of REQ_INDEX_PATTERN.match(s), 0 when there is no match.
\* Every quantifier is greedy and each shorter alternative leaves a digit or a
\* dot in front of \s, so the greedy parse is the only candidate.
ReqIndexMatch(s) ==
  LET a == IF s # <<>> /\ IsUpper(s[1]) THEN 1 ELSE 0
      d == Digits(s, a)
      e == DotGroups(s, a + d)
  IN IF d > 0 /\ e + 1 <= Len(s) /\ IsSpace(s[e + 1]) THEN e + 1 ELSE 0

\* node.id.split(".")
RECURSIVE split_dot(_)
split_dot(s) ==
  IF \E i \in 1..Len(s) : s[i] = "."
  THEN LET i == CHOOSE i \in 1..Len(s) : s[i] = "." /\ \A j \in 1..(i - 1) : s[j] # "."
       IN <<SubSeq(s, 1, i - 1)>> \o split_dot(SubSeq(s, i + 1, Len(s)))
  ELSE <<s>>

\* ------------------------------------------------------------------------
\* ComplianceControlNode
\* ------------------------------------------------------------------------
\* One entry per regular expression of title_split_patterns, in list order.
\* pre: the pattern has ,?\s* between (.*) and the phrase.  lits: the phrase
\* (two literals where the phrase has its own optional comma).  nl: the
\* pattern ends in \s*\n (TRUE) or in \s* (FALSE).
title_split_patterns == <<
  [pre |-> FALSE, nl |-> TRUE,
   lits |-> {<<"including", ",", " ", "but not limited to", " ", "failure of", ":">>,
             <<"including", " ", "but not limited to", " ", "failure of", ":">>}],
  [pre |-> FALSE, nl |-> TRUE,
   lits |-> {<<"including", ",", " ", "but not limited to", ":">>,
             <<"including", " ", "but not limited to", ":">>}],
  [pre |-> TRUE, nl |-> TRUE, lits |-> {<<"including", " ", "mechanisms that", " ", "are", ":">>}],
  [pre |-> TRUE, nl |-> TRUE, lits |-> {<<"that meets the following", ":">>}],
  [pre |-> TRUE, nl |-> TRUE, lits |-> {<<"code changes", " ", "are", ":">>}],
  [pre |-> TRUE, nl |-> TRUE, lits |-> {<<"that includes", ":">>}],
  [pre |-> TRUE, nl |-> TRUE, lits |-> {<<"and includes", ":">>}],
  [pre |-> TRUE, nl |-> TRUE, lits |-> {<<"and include", ":">>}],
  [pre |-> TRUE, nl |-> TRUE, lits |-> {<<"as follows", ":">>}],
  [pre |-> TRUE, nl |-> TRUE, lits |-> {<<"including", ":">>}],
  [pre |-> TRUE, nl |-> TRUE, lits |-> {<<"such that", ":">>}],
  [pre |-> TRUE, nl |-> TRUE, lits |-> {<<"are", ":">>}],
  [pre |-> TRUE, nl |-> TRUE, lits |-> {<<"is", ":">>}],
  [pre |-> FALSE, nl |-> TRUE, lits |-> {<<":">>}],
  [pre |-> FALSE, nl |-> FALSE, lits |-> {<<"PCI DSS Reference", ":">>}] >>

\* length of the run of whitespace of s from offset p on
RECURSIVE SpaceRun(_, _)
SpaceRun(s, p) == IF p + 1 <= Len(s) /\ IsSpace(s[p + 1]) THEN 1 + SpaceRun(s, p + 1) ELSE 0

\* \s*\n matches at offset q: some newline lies in the whitespace run at q
SpaceThenNewline(s, q) == \E k \in 1..SpaceRun(s, q) : s[q + k] = "\n"

\* what follows (.*) in pattern pat matches at offset p: the optional comma
\* (a), any part of the whitespace run after it (b), the phrase, the ending
TailMatchesAt(pat, s, p) ==
  \E a \in 0..(IF pat.pre THEN 1 ELSE 0) :
    /\ (a = 1 => (p + 1 <= Len(s) /\ s[p + 1] = ","))
    /\ \E b \in 0..(IF pat.pre THEN SpaceRun(s, p + a) ELSE 0) :
         \E lit \in pat.lits :
           /\ LitAt(s, p + a + b, lit)
           /\ (pat.nl => SpaceThenNewline(s, p + a + b + Len(lit)))

\* re.search(splitter, s) finds a match
Searches(pat, s) == \E p \in 0..Len(s) : TailMatchesAt(pat, s, p)

\* mt.group(1): (?s)(.*) is greedy, so it ends at the last offset where the
\* rest of the pattern matches
Group1(pat, s) ==
  LET p == CHOOSE p \in 0..Len(s) :
             /\ TailMatchesAt(pat, s, p)
             /\ \A q \in (p + 1)..Len(s) : ~TailMatchesAt(pat, s, q)
  IN SubSeq(s, 1, p)

\* the splitter the loop stops at with break: 0 when no pattern matches
LastSplitter(s) ==
  IF \E i \in 1..Len(title_split_patterns) : Searches(title_split_patterns[i], s)
  THEN CHOOSE i \in 1..Len(title_split_patterns) :
         /\ Searches(title_split_patterns[i], s)
         /\ \A j \in (i + 1)..Len(title_split_patterns) : ~Searches(title_split_patterns[j], s)
  ELSE 0

FirstSplitter(s) ==
  IF \E i \in 1..Len(title_split_patterns) : Searches(title_split_patterns[i], s)
  THEN CHOOSE i \in 1..Len(title_split_patterns) :
         /\ Searches(title_split_patterns[i], s)
         /\ \A j \in 1..(i - 1) : ~Searches(title_split_patterns[j], s)
  ELSE 0

\* title_candidate.replace("\n", " ")
ReplaceNewlines(s) == [i \in 1..Len(s) |-> IF s[i] = "\n" THEN " " ELSE s[i]]

\* re.sub(r"\s+", " ", s)
RECURSIVE CollapseSpace(_)
CollapseSpace(s) ==
  IF s = <<>> THEN <<>>
  ELSE IF IsSpace(Head(s)) THEN <<" ">> \o CollapseSpace(lstrip(s))
  ELSE <<Head(s)>> \o CollapseSpace(Tail(s))

\* re.sub(r",$", ".", s) on a text without newlines
TrailingCommaToPeriod(s) ==
  IF s # <<>> /\ s[Len(s)] = "," THEN SubSeq(s, 1, Len(s) - 1) \o <<".">> ELSE s

\* the normalisation of lines 138-140
Cleaned(title_candidate) ==
  TrailingCommaToPeriod(CollapseSpace(strip(ReplaceNewlines(title_candidate))))

\* lines 118-125 of _parse_id_and_title: the id recovered from raw_blob
ParseId(raw_blob) ==
  LET text == strip(raw_blob)
      m == ReqIndexMatch(text)
  IN IF text # <<>> /\ m > 0 THEN strip(SubSeq(text, 1, m)) ELSE None

\* ComplianceControlNode._parse_id_and_title: the id, the title and the index
\* of the splitter the loop broke at, for a node built from raw_blob
ParseIdAndTitle(raw_blob) ==
  LET text == strip(raw_blob)
      k == FirstSplitter(text)
  IN IF text = <<>> THEN [id |-> None, title |-> <<>>, splitter |-> 0]
     ELSE [id |-> ParseId(raw_blob),
           title |-> Cleaned(IF k = 0 THEN text ELSE Group1(title_split_patterns[k], text)),
           splitter |-> k]

\* ComplianceControlNode.__init__: a node not yet attached (parent -1 is None)
NewNode(raw_blob) ==
  LET r == ParseIdAndTitle(raw_blob)
  IN [raw_blob |-> raw_blob, id |-> r.id, title |-> r.title,
      parent |-> -1, children |-> <<>>, depth |-> 0]

\* mutation of add_child: the new child is put in front of its siblings
add_child_front(ns, parent, n) ==
  [ns EXCEPT ![parent].children = <<n>> \o @, ![n].parent = parent]

\* ComplianceControlNode.add_child on the node table ns: parent gets n as its
\* last child and n gets parent
add_child(ns, parent, n) ==
  [ns EXCEPT ![parent].children = Append(@, n), ![n].parent = parent]

\* ComplianceControlNode.to_dict of node i
RECURSIVE NodeToDict(_, _)
NodeToDict(ns, i) ==
  [id |-> ns[i].id, title |-> ns[i].title,
   children |-> [k \in 1..Len(ns[i].children) |-> NodeToDict(ns, ns[i].children[k])]]

\* ------------------------------------------------------------------------
\* ComplianceControlTree.  The node table maps 0 (the root) and 1..n (the
\* nodes in order of creation) to their fields; last_by_depth is the dict.
\* ------------------------------------------------------------------------
TreeInit ==
  [nodes |-> (0 :> [raw_blob |-> <<>>, id |-> None, title |-> <<"ROOT">>,
                    parent |-> -1, children |-> <<>>, depth |-> 0]),
   last_by_depth |-> (0 :> 0)]

\* dict.get(key, default)
DictGet(d, key, default) == IF key \in DOMAIN d THEN d[key] ELSE default

\* d[key] = value
DictSet(d, key, value) == [k \in (DOMAIN d) \cup {key} |-> IF k = key THEN value ELSE d[k]]

\* mutation of add_node_from_blob: the node is not recorded in last_by_depth
AddNodeNoTrack(t, blob) ==
  LET node == NewNode(blob)
      n == Cardinality(DOMAIN t.nodes)
      depth == Len(split_dot(node.id))
      parent == DictGet(t.last_by_depth, depth - 1, 0)
      ns1 == add_child((n :> node) @@ t.nodes, parent, n)
  IN IF node.id = None \/ node.id = <<>> THEN t
     ELSE [nodes |-> [ns1 EXCEPT ![n].depth = ns1[parent].depth + 1],
           last_by_depth |-> t.last_by_depth]

\* mutation of add_node_from_blob: a blob without an id is attached under
\* the root instead of being skipped
AddNodeNoSkip(t, blob) ==
  LET node == NewNode(blob)
      n == Cardinality(DOMAIN t.nodes)
      depth == IF node.id = None THEN 1 ELSE Len(split_dot(node.id))
      parent == DictGet(t.last_by_depth, depth - 1, 0)
      ns1 == add_child((n :> node) @@ t.nodes, parent, n)
  IN [nodes |-> [ns1 EXCEPT ![n].depth = ns1[parent].depth + 1],
      last_by_depth |-> DictSet(t.last_by_depth, depth, n)]

\* mutation of add_node_from_blob: the first node seen at a depth stays the
\* reference for that depth
AddNodeFirstWins(t, blob) ==
  LET node == NewNode(blob)
      n == Cardinality(DOMAIN t.nodes)
      depth == Len(split_dot(node.id))
      parent == DictGet(t.last_by_depth, depth - 1, 0)
      ns1 == add_child((n :> node) @@ t.nodes, parent, n)
  IN IF node.id = None \/ node.id = <<>> THEN t
     ELSE [nodes |-> [ns1 EXCEPT ![n].depth = ns1[parent].depth + 1],
           last_by_depth |-> IF depth \in DOMAIN t.last_by_depth THEN t.last_by_depth
                             ELSE DictSet(t.last_by_depth, depth, n)]

\* ComplianceControlTree.add_node_from_blob on the tree t
AddNodeFromBlob(t, blob) ==
  LET node == NewNode(blob)
      n == Cardinality(DOMAIN t.nodes)
      depth == Len(split_dot(node.id))
      parent == DictGet(t.last_by_depth, depth - 1, 0)
      ns1 == add_child((n :> node) @@ t.nodes, parent, n)
  IN IF node.id = None \/ node.id = <<>> THEN t
     ELSE [nodes |-> [ns1 EXCEPT ![n].depth = ns1[parent].depth + 1],
           last_by_depth |-> DictSet(t.last_by_depth, depth, n)]

\* mutation of to_dict: the root's children are listed last to first
TreeToDictReversed(ns) ==
  [k \in 1..Len(ns[0].children) |->
     NodeToDict(ns, ns[0].children[Len(ns[0].children) + 1 - k])]

\* ComplianceControlTree.to_dict
TreeToDict(ns) == [k \in 1..Len(ns[0].children) |-> NodeToDict(ns, ns[0].children[k])]

\* ------------------------------------------------------------------------
\* YamlFormatter.  A line is its indentation depth, its field and its value.
\* ------------------------------------------------------------------------
\* _wrap_title: textwrap.fill leaves a whitespace-normalised title shorter
\* than the width as it is; every title of the model is shorter than
\* 98 - len(title_prefix)
WrapTitle(title, depth) == IF title = <<>> THEN <<>> ELSE title

\* _format_node
FormatNode(ns, i) ==
  LET d == ns[i].depth
  IN << [indent |-> d, field |-> "- id", value |-> <<"Req-">> \o ns[i].id],
        [indent |-> d, field |-> "title", value |-> WrapTitle(ns[i].title, d)],
        [indent |-> d, field |-> "levels", value |-> <<>>],
        [indent |-> d, field |-> "- base", value |-> <<>>],
        [indent |-> d, field |-> "status", value |-> <<"not applicable">>] >>
     \o (IF ns[i].children # <<>>
         THEN << [indent |-> d, field |-> "controls", value |-> <<>>] >>
         ELSE << [indent |-> d, field |-> "rules", value |-> <<"[]">>],
                 [indent |-> 0, field |-> "", value |-> <<>>] >>)

\* _walk over the children ch[k..] of one node, then format
RECURSIVE WalkAll(_, _, _)
WalkAll(ns, ch, k) ==
  IF k > Len(ch) THEN <<>>
  ELSE FormatNode(ns, ch[k]) \o WalkAll(ns, ns[ch[k]].children, 1) \o WalkAll(ns, ch, k + 1)

YamlFormat(ns) ==
  << [indent |-> 0, field |-> "HEADER_TEMPLATE", value |-> <<>>] >> \o WalkAll(ns, ns[0].children, 1)

\* ------------------------------------------------------------------------
\* PDF & table processing
\* ------------------------------------------------------------------------
HEADER_COL_NORMALIZED == "requirements and testing procedures"

\* find_requirements_column_index: the 0-based index of the first header cell
\* whose lowered text contains the label, -1 for None
find_requirements_column_index(table) ==
  IF table = <<>> THEN -1
  ELSE LET header_row == table[1]
           lowered == [i \in 1..Len(header_row) |-> lower(strip(str(header_row[i])))]
           hit(i) == \E j \in 1..Len(lowered[i]) : lowered[i][j] = HEADER_COL_NORMALIZED
       IN IF \E i \in 1..Len(lowered) : hit(i)
          THEN (CHOOSE i \in 1..Len(lowered) : hit(i) /\ \A j \in 1..(i - 1) : ~hit(j)) - 1
          ELSE -1

\* should_ignore_cell_header: one of the three labels at the start of the
\* text, in any case, followed by a word boundary
should_ignore_cell_header(text) ==
  /\ text # <<>>
  /\ LowerChunk(text[1]) \in {"customized approach objective", "applicability notes",
                               "defined approach requirements"}
  /\ (Len(text) = 1 \/ ~StartsWithWordChar(text[2]))

\* update_list_req: the list and the returned index (0-based, -1 before the
\* first blob) after the call with cell c
UpdateListReq(lr, idx, c) ==
  LET text == strip(str(c))
  IN IF c = None \/ text = <<>> \/ should_ignore_cell_header(text)
     THEN [list_req |-> lr, req_index |-> idx]
     ELSE IF ReqIndexMatch(text) > 0
     THEN [list_req |-> Append(lr, text), req_index |-> idx + 1]
     ELSE IF idx >= 0
     THEN [list_req |-> [lr EXCEPT ![idx + 1] = @ \o <<" ">> \o text], req_index |-> idx]
     ELSE [list_req |-> lr, req_index |-> idx]

\* row[col_index] if col_index < len(row) else ""
RowCell(row, col) == IF col < Len(row) THEN row[col + 1] ELSE <<>>

\* ------------------------------------------------------------------------
\* Inputs
\* ------------------------------------------------------------------------
\* blobs given to the tree builder: identifiers of one to four segments,
\* a repeated first segment, a lettered identifier, a title with a cut
\* phrase, and blobs from which no identifier is recovered
TreeBlobs ==
  { <<"1", " ", "x">>,
    <<"2", " ", "y">>,
    <<"1", ".", "1", " ", "x">>,
    <<"A", "1", ".", "2", " ", "y", ":", "\n", "x">>,
    <<"1", ".", "1", ".", "1", " ", "x", ",">>,
    <<"1", ".", "1", ".", "1", ".", "1", " ", "x">>,
    <<"x", " ", "1", " ", "y">>,
    <<" ", "\n">> }

\* cells given to the blob assembler
Cells ==
  { None, <<>>, <<" ", "\n">>,
    <<"Applicability Notes">>,
    <<"APPLICABILITY NOTES", " ", "x">>,
    <<"Applicability Notes", "x">>,
    <<"1", " ", "x">>,
    <<"1", ".", "1", " ", "y">>,
    <<"1", ".", "1", " ">>,
    <<" ", "2", " ", "x">>,
    <<"x">>,
    <<"y", "\n">> }

HeaderRows ==
  { << <<"Other Column">>, <<"Requirements and Testing Procedures">>,
       <<"requirements and testing procedures">> >>,
    << <<" ", "REQUIREMENTS AND TESTING PROCEDURES", " ", "(cont.)">>, <<"Other Column">> >>,
    << <<"Other Column">>, None >> }

DataRows ==
  { << <<"2", " ", "y">>, <<"1", " ", "x">> >>,
    << <<"1", ".", "1", " ">>, <<"x">> >>,
    << <<"y">> >> }

SeqsUpTo(S, n) == UNION {[1..k -> S] : k \in 0..n}

Tables == {<<>>} \cup {<<h>> \o rows : h \in HeaderRows, rows \in SeqsUpTo(DataRows, MaxRows)}

RECURSIVE Concat(_)
Concat(ps) == IF ps = <<>> THEN <<>> ELSE Head(ps) \o Concat(Tail(ps))

Pieces ==
  { <<"x">>,
    <<" ", "y">>,
    <<"\n">>,
    <<" ", "y", ":", "\n">>,
    <<",", " ", "including", ",", " ", "but not limited to", ":">>,
    <<" ", "including", " ", "but not limited to", " ", "failure of", ":">>,
    <<",", " ", "including", ":">>,
    <<" ", "code changes", " ", "are", ":">>,
    <<" ", "PCI DSS Reference", ":">> }

IdPrefixes == { <<>>, <<"A", "2", ".", "1", " ">> }

\* "2 Do the thing, including, but not limited to: sub-detail here"
ScenarioC ==
  <<"2", " ", "x", ",", " ", "including", ",", " ", "but not limited to", ":", " ", "y">>

\* blobs given to the node parser
TitleBlobs ==
  {ScenarioC} \cup {pre \o Concat(ps) : pre \in IdPrefixes, ps \in SeqsUpTo(Pieces, MaxPieces)}

\* ------------------------------------------------------------------------
\* State
\* ------------------------------------------------------------------------
VARIABLES
  nodes,          \* ComplianceControlTree: the node table
  last_by_depth,  \* ComplianceControlTree.last_by_depth
  calls,          \* the blobs add_node_from_blob was called with, in order
  list_req,       \* the blob list of the assembler
  req_index,      \* the index of the current blob, -1 when there is none
  cells,          \* the cells update_list_req was called with, in order
  tables,         \* the argument of extract_requirement_blobs
  ti,             \* tables of the for loop already left behind
  ri,             \* rows of the current table already left behind
  col_index,      \* col_index of the current table
  pc,             \* position in extract_requirement_blobs
  node,           \* the ComplianceControlNode last constructed
  splitter        \* the pattern its constructor's loop broke at, 0 for none, -1 before the loop

treeVars == <<nodes, last_by_depth, calls>>
blobVars == <<list_req, req_index, cells>>
extractVars == <<tables, ti, ri, col_index, pc>>
nodeVars == <<node, splitter>>
vars == <<nodes, last_by_depth, calls, list_req, req_index, cells,
          tables, ti, ri, col_index, pc, node, splitter>>

TreeStart ==
  /\ nodes = TreeInit.nodes
  /\ last_by_depth = TreeInit.last_by_depth
  /\ calls = <<>>

BlobStart == list_req = <<>> /\ req_index = -1 /\ cells = <<>>

ExtractIdle == tables = <<>> /\ ti = 0 /\ ri = 0 /\ col_index = -1 /\ pc = "idle"

NodeStart == node = NewNode(<<>>) /\ splitter = 0

\* ------------------------------------------------------------------------
\* The tree builder
\* ------------------------------------------------------------------------
Init == TreeStart /\ BlobStart /\ ExtractIdle /\ NodeStart

add_node_from_blob(blob) ==
  /\ Len(calls) < MaxBlobs
  /\ LET t == AddNodeFromBlob([nodes |-> nodes, last_by_depth |-> last_by_depth], blob)
     IN nodes' = t.nodes /\ last_by_depth' = t.last_by_depth
  /\ calls' = Append(calls, blob)
  /\ UNCHANGED <<blobVars, extractVars, nodeVars>>

Next == \E blob \in TreeBlobs : add_node_from_blob(blob)

Spec == Init /\ [][Next]_vars

\* ------------------------------------------------------------------------
\* The blob assembler
\* ------------------------------------------------------------------------
InitBlob == Init

update_list_req(cell) ==
  /\ Len(cells) < MaxCells
  /\ LET r == UpdateListReq(list_req, req_index, cell)
     IN list_req' = r.list_req /\ req_index' = r.req_index
  /\ cells' = Append(cells, cell)
  /\ UNCHANGED <<treeVars, extractVars, nodeVars>>

NextBlob == \E cell \in Cells : update_list_req(cell)

SpecBlob == InitBlob /\ [][NextBlob]_vars

\* ------------------------------------------------------------------------
\* extract_requirement_blobs
\* ------------------------------------------------------------------------
InitExtract ==
  /\ TreeStart /\ BlobStart /\ NodeStart
  /\ tables \in SeqsUpTo(Tables, MaxTables)
  /\ ti = 0 /\ ri = 0 /\ col_index = -1 /\ pc = "tables"

\* for tbl in tables: col_index is None: continue
SkipTable ==
  /\ pc = "tables" /\ ti < Len(tables)
  /\ find_requirements_column_index(tables[ti + 1]) = -1
  /\ ti' = ti + 1
  /\ UNCHANGED <<tables, ri, col_index, pc, treeVars, blobVars, nodeVars>>

\* for tbl in tables: the column is found, the loop over tbl[1:] starts
EnterTable ==
  /\ pc = "tables" /\ ti < Len(tables)
  /\ find_requirements_column_index(tables[ti + 1]) # -1
  /\ col_index' = find_requirements_column_index(tables[ti + 1])
  /\ ri' = 1
  /\ pc' = "rows"
  /\ UNCHANGED <<tables, ti, treeVars, blobVars, nodeVars>>

\* for row in tbl[1:]: one cell goes to update_list_req
FeedRow ==
  /\ pc = "rows" /\ ri < Len(tables[ti + 1])
  /\ LET cell == RowCell(tables[ti + 1][ri + 1], col_index)
         r == UpdateListReq(list_req, req_index, cell)
     IN /\ list_req' = r.list_req
        /\ req_index' = r.req_index
        /\ cells' = Append(cells, cell)
  /\ ri' = ri + 1
  /\ UNCHANGED <<tables, ti, col_index, pc, treeVars, nodeVars>>

\* the rows of the table are exhausted
LeaveTable ==
  /\ pc = "rows" /\ ri >= Len(tables[ti + 1])
  /\ ti' = ti + 1
  /\ pc' = "tables"
  /\ UNCHANGED <<tables, ri, col_index, treeVars, blobVars, nodeVars>>

\* return list_req
Return ==
  /\ pc = "tables" /\ ti = Len(tables)
  /\ pc' = "done"
  /\ UNCHANGED <<tables, ti, ri, col_index, treeVars, blobVars, nodeVars>>

NextExtract == SkipTable \/ EnterTable \/ FeedRow \/ LeaveTable \/ Return

SpecExtract == InitExtract /\ [][NextExtract]_vars

\* ------------------------------------------------------------------------
\* The node parser
\* ------------------------------------------------------------------------
\* the fields __init__ assigns before it calls _parse_id_and_title
InitNode ==
  /\ TreeStart /\ BlobStart /\ ExtractIdle
  /\ \E blob \in TitleBlobs :
       node = [raw_blob |-> blob, id |-> None, title |-> <<>>,
               parent |-> -1, children |-> <<>>, depth |-> 0]
  /\ splitter = -1

\* _parse_id_and_title, called once by the constructor
parse_id_and_title ==
  /\ splitter = -1
  /\ node' = NewNode(node.raw_blob)
  /\ splitter' = ParseIdAndTitle(node.raw_blob).splitter
  /\ UNCHANGED <<treeVars, blobVars, extractVars>>

NextNode == parse_id_and_title

SpecNode == InitNode /\ [][NextNode]_vars

\* ------------------------------------------------------------------------
\* Properties of the tree builder (Spec)
\* ------------------------------------------------------------------------
\* number of non-root nodes
NumNodes == Cardinality(DOMAIN nodes) - 1

\* segment count of the identifier of node i
Segs(i) == Len(split_dot(nodes[i].id))

\* an identifier is recovered from the blob
HasId(blob) == ParseId(blob) # None

\* the calls that carried a blob with an identifier
ValidCalls == SelectSeq(calls, HasId)

\* the last node created before node i whose identifier has d segments,
\* 0 (the root) when there is none
LastBefore(i, d) ==
  LET c == {j \in 1..(i - 1) : Segs(j) = d}
  IN IF c = {} THEN 0 ELSE CHOOSE j \in c : \A k \in c : k <= j

\* C1: every non-root node's depth field equals the segment count d of its
\* identifier, and its parent's depth field is d-1, the parent being the root
\* only when no node of d-1 segments was attached before.
C1_DepthIsSegmentCount ==
  \A i \in 1..NumNodes :
    /\ nodes[i].depth = Segs(i)
    /\ \/ nodes[nodes[i].parent].depth = Segs(i) - 1
       \/ (nodes[i].parent = 0 /\ LastBefore(i, Segs(i) - 1) = 0)

\* C2: every node is a child of the node most recently attached with one
\* segment fewer, or of the root when there is none; so a parent is the root
\* or has exactly one segment fewer; and '1', '1.1', '1.1.1' gives one chain.
C2_ParentIsLastOneSegmentFewer ==
  /\ \A i \in 1..NumNodes :
       /\ nodes[i].parent = LastBefore(i, Segs(i) - 1)
       /\ nodes[i].parent = 0 \/ Segs(nodes[i].parent) = Segs(i) - 1
       /\ \E k \in 1..Len(nodes[nodes[i].parent].children) :
            nodes[nodes[i].parent].children[k] = i
  /\ calls = << <<"1", " ", "x">>, <<"1", ".", "1", " ", "x">>,
                <<"1", ".", "1", ".", "1", " ", "x", ",">> >>
       => /\ nodes[0].children = <<1>>
          /\ nodes[1].children = <<2>>
          /\ nodes[2].children = <<3>>
          /\ nodes[3].children = <<>>

C2_Witness ==
  /\ NumNodes = 3
  /\ nodes[1].id = <<"1">> /\ nodes[1].parent = 0
  /\ nodes[2].id = <<"1", ".", "1">> /\ nodes[2].parent = 1
  /\ nodes[3].id = <<"1", ".", "1", ".", "1">> /\ nodes[3].parent = 2

\* node k comes from the k-th blob that carried an identifier, every children
\* list is in increasing node order, and each node is listed once, by its parent
ChildrenInBlobOrder ==
  /\ NumNodes = Len(ValidCalls)
  /\ \A k \in 1..NumNodes : nodes[k].raw_blob = ValidCalls[k]
  /\ \A i \in 0..NumNodes :
       LET ch == nodes[i].children
       IN /\ \A a, b \in 1..Len(ch) : a < b => ch[a] < ch[b]
          /\ \A a \in 1..Len(ch) : ch[a] \in 1..NumNodes /\ nodes[ch[a]].parent = i

\* a call leaves each children list as it is or appends the new node to it,
\* and moves no existing node to another parent
AppendOnly ==
  \A i \in DOMAIN nodes :
    /\ i \in DOMAIN nodes'
    /\ nodes'[i].parent = nodes[i].parent
    /\ \/ nodes'[i].children = nodes[i].children
       \/ nodes'[i].children = Append(nodes[i].children, NumNodes + 1)

\* C3: children lists are ordered by the position of the originating blobs in
\* the input; a node is only ever appended as its parent's last child and no
\* child is reordered, moved, detached or removed by a later call.
C3_OrderPreserved == [](ChildrenInBlobOrder) /\ [][AppendOnly]_vars

C3_Witness ==
  /\ NumNodes = 4
  /\ nodes[0].children = <<1, 3>>
  /\ nodes[1].children = <<2, 4>>

\* the tree's shape: identifiers and nesting, without the titles
RECURSIVE ShapeOf(_)
ShapeOf(d) == [id |-> d.id, children |-> [k \in 1..Len(d.children) |-> ShapeOf(d.children[k])]]

\* depth-first pre-order of a list of node objects
RECURSIVE PreOrder(_)
PreOrder(ds) ==
  IF ds = <<>> THEN <<>>
  ELSE <<Head(ds)>> \o PreOrder(Head(ds).children) \o PreOrder(Tail(ds))

RECURSIVE FeedBlobs(_, _)
FeedBlobs(t, bs) ==
  IF bs = <<>> THEN t ELSE FeedBlobs(AddNodeFromBlob(t, Head(bs)), Tail(bs))

\* the tree rebuilt from the nested-object form: identifier + title of each
\* object, in pre-order, through add_node_from_blob on a fresh tree
Rebuilt(ds) ==
  LET pre == PreOrder(ds)
  IN FeedBlobs(TreeInit, [k \in 1..Len(pre) |-> pre[k].id \o <<" ">> \o pre[k].title])

RoundTripIsomorphic ==
  LET ds == TreeToDict(nodes)
      rs == TreeToDict(Rebuilt(ds).nodes)
  IN [k \in 1..Len(ds) |-> ShapeOf(ds[k])] = [k \in 1..Len(rs) |-> ShapeOf(rs[k])]

\* node indices in depth-first pre-order
RECURSIVE PreOrderNodes(_, _)
PreOrderNodes(ch, k) ==
  IF k > Len(ch) THEN <<>>
  ELSE <<ch[k]>> \o PreOrderNodes(nodes[ch[k]].children, 1) \o PreOrderNodes(ch, k + 1)

\* no node attached to the root for want of a parent comes, in pre-order,
\* after a node with one segment fewer
NoOrphanAfterParentLevel ==
  LET pre == PreOrderNodes(nodes[0].children, 1)
  IN \A p \in 1..Len(pre) :
       (nodes[pre[p]].parent = 0 /\ Segs(pre[p]) > 1)
         => \A q \in 1..(p - 1) : Segs(pre[q]) # Segs(pre[p]) - 1

\* C4 as stated: every reachable tree, rebuilt from its nested-object form,
\* is isomorphic to itself.
C4_RoundTripEveryTree == RoundTripIsomorphic

\* C4 amended: the rebuilt tree is isomorphic exactly when no node that was
\* attached to the root for want of a parent follows, in pre-order, a node
\* with one segment fewer.
C4_RoundTripWithoutLateParent == RoundTripIsomorphic <=> NoOrphanAfterParentLevel

C4_Witness ==
  /\ NumNodes = 4
  /\ NoOrphanAfterParentLevel
  /\ \E i \in 1..NumNodes : nodes[i].parent = 0 /\ Segs(i) > 1
  /\ \E i \in 1..NumNodes : nodes[i].parent # 0
  /\ Len(nodes[0].children) >= 2

\* the (id, title) objects of the nested-object output, in pre-order
DictEntries == PreOrder(TreeToDict(nodes))

\* the lines of the structured-document output
YamlLines == YamlFormat(nodes)

\* the tree and the rightmost-spine mapping are the ones the blobs with an
\* identifier alone would have built, and no output carries a dropped blob
DroppedBlobsLeaveNoTrace ==
  /\ [nodes |-> nodes, last_by_depth |-> last_by_depth] = FeedBlobs(TreeInit, ValidCalls)
  /\ Len(DictEntries) = Len(ValidCalls)
  /\ Cardinality({k \in 1..Len(YamlLines) : YamlLines[k].field = "- id"}) = Len(ValidCalls)
  /\ \A c \in 1..Len(calls) :
       ~HasId(calls[c]) =>
         /\ \A k \in 1..Len(DictEntries) :
              DictEntries[k].title # ParseIdAndTitle(calls[c]).title
         /\ \A k \in 1..Len(YamlLines) :
              YamlLines[k].field = "title"
                => YamlLines[k].value # ParseIdAndTitle(calls[c]).title

\* a call with a blob without an identifier changes neither a node nor the
\* rightmost-spine mapping
DropIsSilent ==
  (calls' # calls /\ ~HasId(calls'[Len(calls')]))
    => (nodes' = nodes /\ last_by_depth' = last_by_depth)

\* C6: a blob with no leading identifier token is dropped: the tree and
\* last_by_depth stay as they are, the blob is in neither output, and later
\* blobs are placed as if the dropped blob had never been in the input.
C6_DroppedBlobChangesNothing == [](DroppedBlobsLeaveNoTrace) /\ [][DropIsSilent]_vars

C6_Witness ==
  /\ Len(calls) = 4
  /\ HasId(calls[1]) /\ ~HasId(calls[2]) /\ HasId(calls[3]) /\ HasId(calls[4])
  /\ nodes[1].children = <<2, 3>>

\* nodes i < j carry the same identifier
Duplicates(i, j) == i < j /\ nodes[i].id = nodes[j].id

\* C10 as stated: two blobs with the same identifier anywhere in the input
\* give two distinct nodes that are siblings under the same parent, and later
\* deeper blobs attach under the later duplicate, never the earlier one.
C10_DuplicatesShareParent ==
  /\ NumNodes = Len(ValidCalls)
  /\ \A i, j \in 1..NumNodes :
       Duplicates(i, j) =>
         /\ nodes[i].parent = nodes[j].parent
         /\ \A n \in (j + 1)..NumNodes : Segs(n) = Segs(j) + 1 => nodes[n].parent # i

\* C10 amended: the duplicates are distinct nodes, one per blob; they are
\* siblings under the same parent when no blob with one segment fewer was
\* attached between them, and otherwise the later one is a child of the last
\* such blob; the later duplicate, not the earlier, is the reference until
\* another node of its depth is attached.
C10_DuplicatesAttachIndependently ==
  /\ NumNodes = Len(ValidCalls)
  /\ \A i, j \in 1..NumNodes :
       Duplicates(i, j) =>
         /\ \E k \in 1..Len(nodes[nodes[i].parent].children) :
              nodes[nodes[i].parent].children[k] = i
         /\ \E k \in 1..Len(nodes[nodes[j].parent].children) :
              nodes[nodes[j].parent].children[k] = j
         /\ IF \E m \in (i + 1)..(j - 1) : Segs(m) = Segs(j) - 1
            THEN nodes[j].parent = LastBefore(j, Segs(j) - 1) /\ nodes[j].parent > i
            ELSE nodes[j].parent = nodes[i].parent
         /\ last_by_depth[Segs(j)] # i
         /\ \A n \in (j + 1)..NumNodes :
              Segs(n) = Segs(j) + 1 =>
                /\ nodes[n].parent # i
                /\ (\A m \in (j + 1)..(n - 1) : Segs(m) # Segs(j)) => nodes[n].parent = j

C10_Witness ==
  /\ NumNodes = 3
  /\ Duplicates(1, 2)
  /\ nodes[0].children = <<1, 2>>
  /\ nodes[2].children = <<3>>
  /\ nodes[1].children = <<>>

\* ------------------------------------------------------------------------
\* Properties of the blob assembler (SpecBlob, SpecExtract)
\* ------------------------------------------------------------------------
\* the cell, as given, matches the identifier grammar
MatchesGrammar(c) == c # None /\ ReqIndexMatch(c) > 0

\* the cell's text, trimmed, matches the identifier grammar
TrimmedMatches(c) == c # None /\ ReqIndexMatch(strip(c)) > 0

IsBlankCell(c) == c = None \/ strip(c) = <<>>

IsHeaderCell(c) == c # None /\ should_ignore_cell_header(strip(c))

\* the law for the call that was made with cell c
BoundaryLaw(c) ==
  /\ MatchesGrammar(c) =>
       /\ list_req' = Append(list_req, strip(c))
       /\ req_index' = Len(list_req)
  /\ (~TrimmedMatches(c) /\ ~IsBlankCell(c) /\ ~IsHeaderCell(c)) =>
       IF req_index >= 0
       THEN /\ list_req' = [list_req EXCEPT ![req_index + 1] = @ \o <<" ">> \o strip(c)]
            /\ req_index' = req_index
       ELSE list_req' = list_req /\ req_index' = req_index
  /\ req_index' = Len(list_req') - 1

\* C5: a cell matching the identifier grammar always starts a new blob seeded
\* with its text and makes it current; any other cell that is not blank or a
\* header extends the current blob after one space, or is discarded when
\* there is none; the current blob is always the last of the list.
C5_BlobBoundaryLaw == [][cells' # cells => BoundaryLaw(cells'[Len(cells')])]_vars

\* the first column of the first row whose cell contains the label,
\* case-insensitively (0-based), -1 when the table has none
LabelColumn(table) ==
  LET cols == IF table = <<>> THEN {}
              ELSE {i \in 1..Len(table[1]) :
                      \E j \in 1..Len(str(table[1][i])) :
                        LowerChunk(str(table[1][i])[j]) = HEADER_COL_NORMALIZED}
  IN IF cols = {} THEN -1 ELSE (CHOOSE i \in cols : \A k \in cols : i <= k) - 1

\* the cells of the label column of the rows after the first, table by table
\* and row by row (the empty text where a row is too short)
RECURSIVE TargetCells(_)
TargetCells(tbls) ==
  IF tbls = <<>> THEN <<>>
  ELSE LET t == Head(tbls)
           c == LabelColumn(t)
       IN (IF c = -1 THEN <<>>
           ELSE [r \in 1..(Len(t) - 1) |-> IF c < Len(t[r + 1]) THEN t[r + 1][c + 1] ELSE <<>>])
          \o TargetCells(Tail(tbls))

\* the cells of cs that satisfy Test, in order
OpeningCells(cs, Test(_)) == SelectSeq(cs, Test)

\* C7: only the cells of the label column of the rows after the header row
\* are fed, in table then row order, tables without the label are skipped;
\* so there are as many blobs as identifier-matching cells fed and each blob
\* starts with the text of the cell that opened it.
C7_OnlyTargetColumnFed ==
  pc = "done" =>
    /\ cells = TargetCells(tables)
    /\ Len(list_req) = Len(OpeningCells(cells, MatchesGrammar))
    /\ \A k \in 1..Len(list_req) :
         k <= Len(OpeningCells(cells, MatchesGrammar))
           => startswith(list_req[k], strip(OpeningCells(cells, MatchesGrammar)[k]))

\* C7 read with the trimmed text deciding what an identifier-matching cell is
C7_OnlyTargetColumnFedTrimmed ==
  pc = "done" =>
    /\ cells = TargetCells(tables)
    /\ Len(list_req) = Len(OpeningCells(cells, TrimmedMatches))
    /\ \A k \in 1..Len(list_req) :
         startswith(list_req[k], strip(OpeningCells(cells, TrimmedMatches)[k]))

\* ------------------------------------------------------------------------
\* Properties of the node parser (SpecNode)
\* ------------------------------------------------------------------------
\* the title the parser would give if it cut the text after the identifier
TitleWithoutId(raw_blob) ==
  LET text == strip(raw_blob)
      rest == SubSeq(text, ReqIndexMatch(text) + 1, Len(text))
      k == FirstSplitter(rest)
  IN Cleaned(IF k = 0 THEN rest ELSE Group1(title_split_patterns[k], rest))

\* C8: the title of a blob that begins with an identifier is the text after
\* the identifier, cut at the first matching cut phrase; for the blob
\* '2 Do the thing, including, but not limited to: sub-detail here' it is
\* 'Do the thing'.
C8_TitleIsTextAfterIdentifier ==
  (splitter >= 0 /\ node.id # None) =>
    /\ node.title = TitleWithoutId(node.raw_blob)
    /\ node.raw_blob = ScenarioC => node.title = <<"x">>

\* the text the patterns are searched in
ParsedText == strip(node.raw_blob)

\* the one cut that was made is the cut of the first pattern that matches
FirstMatchApplied ==
  /\ splitter = 0 =>
       /\ \A i \in 1..Len(title_split_patterns) : ~Searches(title_split_patterns[i], ParsedText)
       /\ node.title = Cleaned(ParsedText)
  /\ splitter > 0 =>
       /\ Searches(title_split_patterns[splitter], ParsedText)
       /\ \A i \in 1..(splitter - 1) : ~Searches(title_split_patterns[i], ParsedText)
       /\ node.title = Cleaned(Group1(title_split_patterns[splitter], ParsedText))

\* the text contains the phrase 'including, but not limited to:'
ContainsPhrase(s) ==
  \E p \in 0..Len(s) : \E lit \in title_split_patterns[2].lits : LitAt(s, p, lit)

====
